---- MODULE Spec2Model ----
(***************************************************************************)
(* Model of the caption backend: the lazy, shared, fallback-capable model  *)
(* loader (getPipe) and the request handlers that use it (POST /caption,   *)
(* GET /warmup, GET /health, GET /ready), for the variants of server.js     *)
(* kept in the repository.  probe is the response written by the last      *)
(* step when that step was the handler of GET /health or GET /ready; calc  *)
(* holds one evaluation of a pure helper of the handlers.                  *)
(*                                                                         *)
(* Node.js runs one handler step at a time: an action of this model is one *)
(* synchronous run of a handler or of a promise callback, from one await   *)
(* to the next.  External operations (pipeline(), fetch, RawImage.read,    *)
(* sharp, inference) settle nondeterministically, successfully or not.     *)
(***************************************************************************)
EXTENDS Integers, Sequences, FiniteSets, TLC

VARIABLES variant, pipePromise, ready, activeModel, seqs, req, probe, calc

vars == <<variant, pipePromise, ready, activeModel, seqs, req, probe, calc>>

(***************************************************************************)
(* Bounds                                                                  *)
(***************************************************************************)
\* Number of HTTP requests (POST /caption, GET /warmup) in one behaviour.
MaxReq == 2

Req == 1..MaxReq

(***************************************************************************)
(* Configuration and values                                                *)
(***************************************************************************)
PRIMARY_MODEL == "Xenova/vit-gpt2-image-captioning"
FALLBACK_MODEL == "Xenova/tiny-vit-gpt2"
\* The single-model variant's identifier.
MODEL_ID == "Xenova/vit-gpt2-image-captioning"

\* JavaScript null / undefined (an absent body field, an unset variable).
NULL == "<null>"
\* The value an awaiting handler holds once the awaited load has rejected.
REJECTED == "<rejected>"
\* What evaluating an undeclared identifier does in an ES module.
ReferenceError == "<ReferenceError>"

\* pipePromise = null; otherwise pipePromise is the index in seqs of the load
\* sequence whose promise it holds.
NoPromise == 0

\* The variants of the service:
\*   single    one model, no fallback, no startup warmup   (server.js:1-87)
\*   raw       fallback loader, RawImage.read of the input (unnamed/part_001)
\*   bytes     fallback loader, getImageBytes              (unnamed/part_002)
\*   parallel  fallback loader, metrics, image data and model awaited
\*             together                                    (server.js:89-311)
\*   nested    fallback loader, metrics in parallel with a caption task
\*                                                   (unnamed/part_003:81-272)
Variants == {"single", "raw", "bytes", "parallel", "nested"}

HasFallback(v) == v # "single"

\* The request bodies tried: image_url and image_base64.
URL == "https://host/cat.png"
DATAURI == "data:image/png;base64,AAAA"
RAWB64 == "AAAA"
ImageUrls == {NULL, URL}
ImageB64s == {NULL, "", DATAURI, RAWB64}

\* probe when the last step was not the handler of a status route.
NoProbe == [route |-> "none", body |-> {}, ready |-> FALSE, model |-> NULL]

(***************************************************************************)
(* JavaScript helpers                                                      *)
(***************************************************************************)
\* Truthiness of a body field or variable: undefined, null and "" are falsy.
Truthy(x) == x # NULL /\ x # ""

\* a || b
Or(a, b) == IF Truthy(a) THEN a ELSE b

\* s.startsWith(p)
StartsWith(s, p) == Len(s) >= Len(p) /\ SubSeq(s, 1, Len(p)) = p

\* /^https?:\/\//i.test(s)
IsHttpUrl(s) ==
  \E p \in {"http://", "https://", "HTTP://", "HTTPS://"} : StartsWith(s, p)

(***************************************************************************)
(* The loader: getPipe()                                                   *)
(***************************************************************************)
\* Mutant of NewSeq: both identifiers are loaded at once, the first to
\* resolve winning.
NewSeq_BothAtOnce ==
  [phase |-> "primary", calls |-> <<PRIMARY_MODEL, FALLBACK_MODEL>>,
   handle |-> NULL, error |-> NULL, handled |-> FALSE, logged |-> <<>>,
   reused |-> FALSE]

\* A load sequence: the promise chain built by one getPipe() call that found
\* no promise.  phase is where the chain stands, calls the identifiers
\* pipeline() was called with, handle the identifier the resolved handle was
\* loaded under, error the reason the chain rejected with, handled whether
\* a rejection handler was attached to the promise before it rejected,
\* logged what the chain wrote with console.error, reused whether a
\* getPipe() call returned the promise after it had settled.
NewSeq ==
  [phase |-> "primary", calls |-> <<IF variant = "single" THEN MODEL_ID
                                    ELSE PRIMARY_MODEL>>,
   handle |-> NULL, error |-> NULL, handled |-> FALSE, logged |-> <<>>,
   reused |-> FALSE]

\* The reasons the two pipeline() calls reject with.
PrimaryError == "primary load failed"
FallbackError == "fallback load failed"

InFlight == {s \in 1..Len(seqs) : seqs[s].phase \in {"primary", "fallback"}}

\* Mutant of LoadNeeded: no memoisation, every call loads.
LoadNeeded_Always == TRUE

\* Mutant of LoadNeeded: the guard tests the ready flag instead of the promise.
LoadNeeded_TestsReady == ~ready

\* if (pipePromise) return pipePromise;   /   if (!pipePromise) { ... }
LoadNeeded == pipePromise = NoPromise

\* seqs and pipePromise after a getPipe() call; the promise the call returns
\* is the new value of pipePromise.
GetPipeSeqs == IF LoadNeeded THEN Append(seqs, NewSeq) ELSE seqs

GetPipePromise == IF LoadNeeded THEN Len(seqs) + 1 ELSE pipePromise

\* Mutant of Awaited: the caller keeps the returned promise and awaits it
\* only in a later run, so no handler is attached when it is created.
Awaited_Later(ss, s) == ss

\* The caller awaits the returned promise inside its try block (or hands it
\* to an awaited Promise.all) in the same synchronous run: promise s of ss
\* has a rejection handler from then on.
Awaited(ss, s) ==
  IF ss[s].phase = "rejected" THEN ss ELSE [ss EXCEPT ![s].handled = TRUE]

\* if (pipePromise) return pipePromise, taken with a promise that has settled.
Returned(ss, s) ==
  IF ss[s].phase \in {"fulfilled", "rejected"}
    THEN [ss EXCEPT ![s].reused = TRUE] ELSE ss

GetPipe ==
  /\ seqs' = Awaited(Returned(GetPipeSeqs, GetPipePromise), GetPipePromise)
  /\ pipePromise' = GetPipePromise

\* A promise rejected with no handler attached: Node.js ends the process on
\* an unhandled rejection.
UnhandledRejection ==
  \E s \in 1..Len(seqs) : seqs[s].phase = "rejected" /\ ~seqs[s].handled

\* The process is alive and its listener accepts requests.
Running == ~UnhandledRejection

\* Mutant of MarkReadyFlag: markReady returns the handle and leaves ready.
MarkReadyFlag_NotSet == ready

\* markReady / finish: ready = true
MarkReadyFlag == TRUE

\* Mutant of MarkReadyModel: markReady sets ready and leaves activeModel.
MarkReadyModel_NotSet(modelId) == activeModel

\* Mutant of MarkReadyModel: records the configured primary whatever loaded.
MarkReadyModel_AlwaysPrimary(modelId) == PRIMARY_MODEL

\* markReady / finish: activeModel = modelId
MarkReadyModel(modelId) == modelId

\* Mutant of ResetPromise: the promise is cleared only when the loader was
\* ready, which it never is when a sequence fails.
ResetPromise_OnlyIfReady == IF ready THEN NoPromise ELSE pipePromise

\* Mutant of ResetPromise: the failed promise is kept.
ResetPromise_Kept == pipePromise

\* catch (err2) { pipePromise = null; ... }
ResetPromise == NoPromise

\* Mutant of RethrownError: the chain rejects with the primary's error.
RethrownError_Primary == PrimaryError

\* catch (err2) { ...; throw err2 }
RethrownError == FallbackError

\* Mutant of TotalFailure: the catch clause calls getPipe() again after the
\* reset, starting the next sequence by itself.
TotalFailure_Retries(s) ==
  Append([seqs EXCEPT ![s].phase = "rejected", ![s].error = RethrownError],
         NewSeq)

\* The load sequences once the fallback attempt of sequence s has failed:
\* the chain rejects and nothing else is started.
TotalFailure(s) ==
  [seqs EXCEPT ![s].phase = "rejected", ![s].error = RethrownError]

\* pipeline('image-to-text', PRIMARY_MODEL) resolves; .then(markReady).
PrimaryLoaded(s) ==
  /\ s \in 1..Len(seqs)
  /\ seqs[s].phase = "primary"
  /\ seqs' = [seqs EXCEPT ![s].phase = "fulfilled", ![s].handle = seqs[s].calls[1]]
  /\ IF HasFallback(variant)
       THEN /\ activeModel' = MarkReadyModel(PRIMARY_MODEL)
            /\ ready' = MarkReadyFlag
       ELSE UNCHANGED <<activeModel, ready>>
  /\ probe' = NoProbe
  /\ UNCHANGED <<variant, calc, pipePromise, req>>

\* pipeline(PRIMARY_MODEL) rejects.  With a fallback the .catch callback logs
\* and calls pipeline(FALLBACK_MODEL); without one the promise stored in
\* pipePromise is the rejected pipeline() promise itself.
PrimaryFailed(s) ==
  /\ s \in 1..Len(seqs)
  /\ seqs[s].phase = "primary"
  /\ IF HasFallback(variant)
       THEN seqs' = [seqs EXCEPT ![s].phase = "fallback",
                                 ![s].logged = Append(@, PrimaryError),
                                 ![s].calls = Append(@, FALLBACK_MODEL)]
       ELSE seqs' = [seqs EXCEPT ![s].phase = "rejected",
                                 ![s].error = PrimaryError]
  /\ probe' = NoProbe
  /\ UNCHANGED <<variant, calc, pipePromise, ready, activeModel, req>>

\* const p2 = await pipeline(FALLBACK_MODEL); return markReady(p2, FALLBACK_MODEL)
FallbackLoaded(s) ==
  /\ s \in 1..Len(seqs)
  /\ seqs[s].phase = "fallback"
  /\ seqs' = [seqs EXCEPT ![s].phase = "fulfilled", ![s].handle = FALLBACK_MODEL]
  /\ activeModel' = MarkReadyModel(FALLBACK_MODEL)
  /\ ready' = MarkReadyFlag
  /\ probe' = NoProbe
  /\ UNCHANGED <<variant, calc, pipePromise, req>>

\* catch (err2) { pipePromise = null; ready = false; activeModel = null; throw err2 }
FallbackFailed(s) ==
  /\ s \in 1..Len(seqs)
  /\ seqs[s].phase = "fallback"
  /\ seqs' = TotalFailure(s)
  /\ pipePromise' = ResetPromise
  /\ ready' = FALSE
  /\ activeModel' = NULL
  /\ probe' = NoProbe
  /\ UNCHANGED <<variant, calc, req>>

(***************************************************************************)
(* Requests                                                                *)
(***************************************************************************)
\* One HTTP request.  pc is the handler's position, input the image
\* reference it acquires, imageInput the reference handed to RawImage.read,
\* seq the load sequence whose promise the handler awaits, pipe what that
\* await gave it (the identifier the handle was loaded under, or REJECTED),
\* ctask the position of the caption task of the nested variant, hasImage
\* whether the body carried an image reference, inferred whether the
\* request's inference resolved, reads the number of acquisitions of the
\* image reference made for it (each one fetches the URL when the reference
\* is a URL), sent the number of responses written, and
\* status, body (the keys of the JSON body), model, rdy, error the response.
IdleReq ==
  [kind |-> "idle", pc |-> "idle", input |-> NULL, imageInput |-> NULL,
   hasImage |-> FALSE, inferred |-> FALSE,
   seq |-> NoPromise, pipe |-> NULL, ctask |-> "none", sent |-> 0,
   reads |-> 0,
   status |-> 0, body |-> {}, model |-> NULL, rdy |-> NULL, error |-> NULL]

\* Requests arrive in the order of their numbers.
CanArrive(r) ==
  /\ Running
  /\ req[r].kind = "idle"
  /\ \A q \in Req : q < r => req[q].kind # "idle"

\* The handler has written its response and returned: its locals are dead.
Finished(q) ==
  [q EXCEPT !.pc = "done", !.input = NULL, !.imageInput = NULL,
            !.ctask = "none", !.sent = @ + 1]

\* Mutant of Fail: the catch clause logs the error and writes no response.
Fail_OnlyLogs(q, msg) ==
  [q EXCEPT !.pc = "done", !.input = NULL, !.imageInput = NULL,
            !.ctask = "none", !.error = msg]

\* Mutant of Fail: the error response keeps what was computed so far.
Fail_KeepsPartial(q, msg) ==
  [Finished(q) EXCEPT !.status = 500, !.body = {"error", "model"},
                      !.model = Or(activeModel, PRIMARY_MODEL), !.error = msg]

\* catch (e) { res.status(500).json({ error: String(e?.message || e) }) }
Fail(q, msg) ==
  [Finished(q) EXCEPT !.status = 500, !.body = {"error"}, !.error = msg]

\* The inline validation of part_001 / part_003: the input of RawImage.read.
ImageInput(image_url, image_base64) ==
  IF Truthy(image_url) THEN image_url
  ELSE IF Truthy(image_base64)
    THEN IF StartsWith(image_base64, "data:image/") THEN image_base64
         ELSE "data:image/jpeg;base64," \o image_base64
    ELSE NULL

\* Whether the first awaited acquisition can fail: RawImage.read fetches or
\* decodes, getImageBytes / getImageBuffer fail only on the fetch of a URL
\* (Buffer.from(_, 'base64') does not throw on a string).
AcquireCanFail(q) == variant = "raw" \/ IsHttpUrl(q.input)

\* Mutant of SeqRejected: a waiter sees the primary's rejection, as if it
\* awaited the pipeline() promise and not the chain with the fallback.
SeqRejected_SeesPrimary(s) == seqs[s].phase \in {"rejected", "fallback"}

\* The promise of load sequence s has rejected.
SeqRejected(s) == seqs[s].phase = "rejected"

\* Mutant of SeqFulfilled: the handler goes on without awaiting the load.
SeqFulfilled_NotAwaited(s) == s \in 1..Len(seqs)

\* The promise of load sequence s has resolved with a handle.
SeqFulfilled(s) == seqs[s].phase = "fulfilled"

\* Mutant of ModelField: the statically configured identifier.
ModelField_Static == PRIMARY_MODEL

\* The model field of the /caption response, as each variant writes it:
\* MODEL_ID (server.js:76), MODEL_ID where no such identifier is declared
\* (part_002:152), activeModel || PRIMARY_MODEL (the others).
ModelField ==
  CASE variant = "single" -> MODEL_ID
    [] variant = "bytes" -> ReferenceError
    [] OTHER -> Or(activeModel, PRIMARY_MODEL)

\* res.json({ caption, model, latency_ms [, metrics] }); evaluating the
\* object literal throws when the model expression does, and the catch
\* clause of the handler answers.
Respond(q) ==
  IF ModelField = ReferenceError
    THEN Fail(q, "MODEL_ID is not defined")
    ELSE [Finished(q) EXCEPT !.status = 200,
                   !.body = {"caption", "model", "latency_ms"}
                            \cup (IF variant \in {"parallel", "nested"}
                                    THEN {"metrics"} ELSE {}),
                   !.model = ModelField]

\* Mutant of GetPipeAt: getPipe() is called next to the image acquisition,
\* before that is awaited.
GetPipeAt_WithImage(v) == "withImage"

\* Mutant of GetPipeAt: getPipe() is the first statement of the handler.
GetPipeAt_Entry(v) == "entry"

\* Where the POST /caption handler of variant v calls getPipe(): in every
\* variant after the awaited acquisition of the image (await RawImage.read,
\* await getImageBytes, await getImageBuffer), never at the entry of the
\* handler and never next to the acquisition.
GetPipeAt(v) == "afterImage"

\* POST /caption arrives: the handler runs to its first await.
CaptionArrives(r, image_url, image_base64) ==
  /\ CanArrive(r)
  /\ LET input == Or(image_url, image_base64)
         imageInput == ImageInput(image_url, image_base64)
         hasImage == Truthy(image_url) \/ Truthy(image_base64)
         early == \/ GetPipeAt(variant) = "entry"
                  \/ GetPipeAt(variant) = "withImage" /\ hasImage
         q == [req[r] EXCEPT !.kind = "caption", !.hasImage = hasImage,
                             !.seq = IF early THEN GetPipePromise ELSE @]
     IN  /\ IF early THEN GetPipe ELSE UNCHANGED <<pipePromise, seqs>>
         /\ IF variant \in {"raw", "nested"}
               THEN IF imageInput = NULL
                      THEN req' = [req EXCEPT ![r] =
                             Fail(q, "Falta image_url o image_base64 en el body")]
                      ELSE req' = [req EXCEPT ![r] =
                             [q EXCEPT !.pc = "acquiring",
                                       !.input = IF variant = "raw" THEN imageInput
                                                 ELSE input,
                                       !.imageInput = imageInput,
                                       !.reads = @ + 1]]
               ELSE IF ~Truthy(input)
                      THEN req' = [req EXCEPT ![r] =
                             Fail(q, "Falta image_url o image_base64")]
                      ELSE req' = [req EXCEPT ![r] =
                             [q EXCEPT !.pc = "acquiring", !.input = input,
                                       !.reads = @ + 1]]
  /\ probe' = NoProbe
  /\ UNCHANGED <<variant, calc, ready, activeModel>>

\* The first acquisition (RawImage.read, getImageBytes, getImageBuffer)
\* resolves: the handler runs on, calls getPipe() and awaits.
AcquireOk(r) ==
  /\ req[r].pc = "acquiring"
  /\ IF req[r].seq = NoPromise THEN GetPipe ELSE UNCHANGED <<pipePromise, seqs>>
  /\ req' = [req EXCEPT ![r] =
       [@ EXCEPT !.seq = IF @ = NoPromise THEN GetPipePromise ELSE @,
                 !.pc = IF variant \in {"parallel", "nested"} THEN "awaitAll"
                        ELSE "awaitPipe",
                 !.input = NULL,
                 !.ctask = IF variant = "nested" THEN "awaitPipe" ELSE "none"]]
  /\ probe' = NoProbe
  /\ UNCHANGED <<variant, calc, ready, activeModel>>

\* Mutant of CaughtPromise: the catch clause of the handler drops the stored
\* promise, so that the next request loads again.
CaughtPromise_Dropped == NoPromise

\* pipePromise once the catch clause of a handler has answered a failure of
\* the request itself: the clause logs and writes the 500 response, and
\* does not touch the loader.
CaughtPromise == pipePromise

\* The first acquisition rejects (fetch failure, !r.ok, undecodable image).
AcquireFails(r) ==
  /\ req[r].pc = "acquiring"
  /\ AcquireCanFail(req[r])
  /\ req' = [req EXCEPT ![r] = Fail(@, "image acquisition failed")]
  /\ probe' = NoProbe
  /\ pipePromise' = CaughtPromise
  /\ UNCHANGED <<variant, calc, ready, activeModel, seqs>>

\* const pipe = await getPipe() resumes with the handle; pipe(...) starts.
PipeResolved(r) ==
  /\ req[r].kind = "caption"
  /\ req[r].pc = "awaitPipe"
  /\ SeqFulfilled(req[r].seq)
  /\ req' = [req EXCEPT ![r] =
       [@ EXCEPT !.pipe = seqs[req[r].seq].handle, !.pc = "inferring"]]
  /\ probe' = NoProbe
  /\ UNCHANGED <<variant, calc, pipePromise, ready, activeModel, seqs>>

\* await getPipe() throws the load's error.
PipeRejected(r) ==
  /\ req[r].kind = "caption"
  /\ req[r].pc = "awaitPipe"
  /\ SeqRejected(req[r].seq)
  /\ req' = [req EXCEPT ![r] =
       Fail([@ EXCEPT !.pipe = REJECTED], seqs[req[r].seq].error)]
  /\ probe' = NoProbe
  /\ UNCHANGED <<variant, calc, pipePromise, ready, activeModel, seqs>>

\* await pipe(img, {max_new_tokens}) resolves: the response is written.
InferOk(r) ==
  /\ req[r].pc = "inferring"
  /\ req' = [req EXCEPT ![r] = Respond([@ EXCEPT !.inferred = TRUE])]
  /\ probe' = NoProbe
  /\ UNCHANGED <<variant, calc, pipePromise, ready, activeModel, seqs>>

\* await pipe(...) rejects.
InferFails(r) ==
  /\ req[r].pc = "inferring"
  /\ req' = [req EXCEPT ![r] = Fail(@, "inference failed")]
  /\ probe' = NoProbe
  /\ pipePromise' = CaughtPromise
  /\ UNCHANGED <<variant, calc, ready, activeModel, seqs>>

(***************************************************************************)
(* The metrics variants: tasks awaited together with Promise.all           *)
(*                                                                         *)
(* metricsPromise and aiDataPromise read only the request's own buffer and *)
(* write nothing shared; the handler sees them only through Promise.all.   *)
(* Their settlement is therefore drawn when the continuation of            *)
(* Promise.all runs: it resumes once every promise has resolved, or throws *)
(* the first rejection, which may come while the others are pending.       *)
(***************************************************************************)
\* await Promise.all([metricsPromise, aiDataPromise, pipePromise]) resumes
\* with all three values; pipe(img, ...) starts (server.js:279-288).
AllResolved(r) ==
  /\ variant = "parallel"
  /\ req[r].pc = "awaitAll"
  /\ SeqFulfilled(req[r].seq)
  /\ req' = [req EXCEPT ![r] =
       [@ EXCEPT !.pipe = seqs[req[r].seq].handle, !.pc = "inferring"]]
  /\ probe' = NoProbe
  /\ UNCHANGED <<variant, calc, pipePromise, ready, activeModel, seqs>>

\* Promise.all rejects with the rejection of one of its three promises:
\* metricsPromise (sharp stats or edge detection), aiDataPromise (raw
\* pixels), or the load.
AllRejected(r) ==
  /\ variant = "parallel"
  /\ req[r].pc = "awaitAll"
  /\ \/ req' = [req EXCEPT ![r] = Fail(@, "metrics failed")]
     \/ req' = [req EXCEPT ![r] = Fail(@, "image decode failed")]
     \/ /\ SeqRejected(req[r].seq)
        /\ req' = [req EXCEPT ![r] =
             Fail([@ EXCEPT !.pipe = REJECTED], seqs[req[r].seq].error)]
  /\ probe' = NoProbe
  /\ pipePromise' = CaughtPromise
  /\ UNCHANGED <<variant, calc, ready, activeModel, seqs>>

\* captionPromise: const pipe = await getPipe() resumes; RawImage.read starts
\* (part_003:236-238).
CaptionTaskPipeResolved(r) ==
  /\ req[r].pc = "awaitAll"
  /\ req[r].ctask = "awaitPipe"
  /\ SeqFulfilled(req[r].seq)
  /\ req' = [req EXCEPT ![r] =
       [@ EXCEPT !.pipe = seqs[req[r].seq].handle, !.ctask = "reading",
                 !.reads = @ + 1]]
  /\ probe' = NoProbe
  /\ UNCHANGED <<variant, calc, pipePromise, ready, activeModel, seqs>>

\* captionPromise: await getPipe() throws; Promise.all rejects.
CaptionTaskPipeRejected(r) ==
  /\ req[r].pc = "awaitAll"
  /\ req[r].ctask = "awaitPipe"
  /\ SeqRejected(req[r].seq)
  /\ req' = [req EXCEPT ![r] =
       Fail([@ EXCEPT !.pipe = REJECTED], seqs[req[r].seq].error)]
  /\ probe' = NoProbe
  /\ UNCHANGED <<variant, calc, pipePromise, ready, activeModel, seqs>>

\* captionPromise: RawImage.read(imageInput) resolves; pipe(img, ...) starts.
CaptionTaskReadOk(r) ==
  /\ req[r].pc = "awaitAll"
  /\ req[r].ctask = "reading"
  /\ req' = [req EXCEPT ![r].ctask = "inferring"]
  /\ probe' = NoProbe
  /\ UNCHANGED <<variant, calc, pipePromise, ready, activeModel, seqs>>

\* captionPromise: RawImage.read(imageInput) rejects; Promise.all rejects.
CaptionTaskReadFails(r) ==
  /\ req[r].pc = "awaitAll"
  /\ req[r].ctask = "reading"
  /\ req' = [req EXCEPT ![r] = Fail(@, "image acquisition failed")]
  /\ probe' = NoProbe
  /\ pipePromise' = CaughtPromise
  /\ UNCHANGED <<variant, calc, ready, activeModel, seqs>>

\* captionPromise: pipe(img, ...) resolves and the task returns out;
\* await Promise.all([metricsPromise, captionPromise]) resumes and the
\* response is written (part_003:239-257).
BothResolved(r) ==
  /\ variant = "nested"
  /\ req[r].pc = "awaitAll"
  /\ req[r].ctask = "inferring"
  /\ req' = [req EXCEPT ![r] = Respond([@ EXCEPT !.inferred = TRUE])]
  /\ probe' = NoProbe
  /\ UNCHANGED <<variant, calc, pipePromise, ready, activeModel, seqs>>

\* captionPromise: pipe(img, ...) rejects; Promise.all rejects.
CaptionTaskInferFails(r) ==
  /\ req[r].pc = "awaitAll"
  /\ req[r].ctask = "inferring"
  /\ req' = [req EXCEPT ![r] = Fail(@, "inference failed")]
  /\ probe' = NoProbe
  /\ pipePromise' = CaughtPromise
  /\ UNCHANGED <<variant, calc, ready, activeModel, seqs>>

\* metricsPromise rejects (sharp cannot decode the buffer) while the caption
\* task is under way; Promise.all rejects.
MetricsFails(r) ==
  /\ variant = "nested"
  /\ req[r].pc = "awaitAll"
  /\ req' = [req EXCEPT ![r] = Fail(@, "metrics failed")]
  /\ probe' = NoProbe
  /\ pipePromise' = CaughtPromise
  /\ UNCHANGED <<variant, calc, ready, activeModel, seqs>>

(***************************************************************************)
(* GET /warmup                                                             *)
(***************************************************************************)
\* GET /warmup arrives: getPipe() is called and awaited.
WarmupArrives(r) ==
  /\ HasFallback(variant)
  /\ CanArrive(r)
  /\ GetPipe
  /\ req' = [req EXCEPT ![r] =
       [@ EXCEPT !.kind = "warmup", !.pc = "awaitPipe", !.seq = GetPipePromise]]
  /\ probe' = NoProbe
  /\ UNCHANGED <<variant, calc, ready, activeModel>>

\* await getPipe() resumes: res.json({ ready: true, model: activeModel }).
WarmupResolved(r) ==
  /\ req[r].kind = "warmup"
  /\ req[r].pc = "awaitPipe"
  /\ SeqFulfilled(req[r].seq)
  /\ req' = [req EXCEPT ![r] =
       [Finished(@) EXCEPT !.pipe = seqs[req[r].seq].handle,
                 !.status = 200, !.body = {"ready", "model"},
                 !.rdy = "true", !.model = activeModel]]
  /\ probe' = NoProbe
  /\ UNCHANGED <<variant, calc, pipePromise, ready, activeModel, seqs>>

\* await getPipe() throws: res.status(500).json({ ready: false, error }).
WarmupRejected(r) ==
  /\ req[r].kind = "warmup"
  /\ req[r].pc = "awaitPipe"
  /\ SeqRejected(req[r].seq)
  /\ req' = [req EXCEPT ![r] =
       [Finished(@) EXCEPT !.pipe = REJECTED,
                 !.status = 500, !.body = {"ready", "error"},
                 !.rdy = "false", !.error = seqs[req[r].seq].error]]
  /\ probe' = NoProbe
  /\ UNCHANGED <<variant, calc, pipePromise, ready, activeModel, seqs>>

(***************************************************************************)
(* GET /health and GET /ready                                              *)
(***************************************************************************)
\* res.json({ ok: true, model: activeModel || PRIMARY_MODEL }); the
\* single-model variant answers { ok: true, model: MODEL_ID }.
HealthBody ==
  [route |-> "/health", body |-> {"ok", "model"}, ready |-> FALSE,
   model |-> IF variant = "single" THEN MODEL_ID
             ELSE Or(activeModel, PRIMARY_MODEL)]

\* Mutant of ReadyBody: the model is defaulted as GET /health defaults it.
ReadyBody_DefaultsModel ==
  [route |-> "/ready", body |-> {"ready", "model"}, ready |-> ready,
   model |-> Or(activeModel, PRIMARY_MODEL)]

\* res.json({ ready, model: activeModel })
ReadyBody ==
  [route |-> "/ready", body |-> {"ready", "model"}, ready |-> ready,
   model |-> activeModel]

\* GET /health: the handler is synchronous and only reads activeModel.
Health ==
  /\ Running
  /\ probe' = HealthBody
  /\ UNCHANGED <<variant, calc, pipePromise, ready, activeModel, seqs, req>>

\* GET /ready: the handler is synchronous and only reads ready and
\* activeModel.  The single-model variant has no such route.
Ready ==
  /\ Running
  /\ HasFallback(variant)
  /\ probe' = ReadyBody
  /\ UNCHANGED <<variant, calc, pipePromise, ready, activeModel, seqs, req>>

\* No helper evaluation: calc keeps this value in every behaviour of Spec.
NoCalc == [fn |-> "none"]

(***************************************************************************)
(* Specification                                                           *)
(***************************************************************************)
\* Mutant of StartupCaught: the startup call drops the returned promise.
StartupCaught_Dropped(ss) == ss

\* getPipe().catch(() => {}): the startup call attaches a handler that
\* swallows the rejection.
StartupCaught(ss) == Awaited(ss, 1)

\* The state once the module has been evaluated: the fallback variants end
\* with getPipe().catch(() => {}), so their first load sequence is already
\* started; the single-model variant loads on the first request.
Init ==
  /\ variant \in Variants
  /\ seqs = IF HasFallback(variant) THEN StartupCaught(<<NewSeq>>) ELSE <<>>
  /\ pipePromise = Len(seqs)
  /\ ready = FALSE
  /\ activeModel = NULL
  /\ req = [r \in Req |-> IdleReq]
  /\ probe = NoProbe
  /\ calc = NoCalc

Next ==
  \/ \E s \in 1..Len(seqs) : PrimaryLoaded(s)
  \/ \E s \in 1..Len(seqs) : PrimaryFailed(s)
  \/ \E s \in 1..Len(seqs) : FallbackLoaded(s)
  \/ \E s \in 1..Len(seqs) : FallbackFailed(s)
  \/ \E r \in Req, u \in ImageUrls, b \in ImageB64s : CaptionArrives(r, u, b)
  \/ \E r \in Req : AcquireOk(r)
  \/ \E r \in Req : AcquireFails(r)
  \/ \E r \in Req : PipeResolved(r)
  \/ \E r \in Req : PipeRejected(r)
  \/ \E r \in Req : InferOk(r)
  \/ \E r \in Req : InferFails(r)
  \/ \E r \in Req : AllResolved(r)
  \/ \E r \in Req : AllRejected(r)
  \/ \E r \in Req : CaptionTaskPipeResolved(r)
  \/ \E r \in Req : CaptionTaskPipeRejected(r)
  \/ \E r \in Req : CaptionTaskReadOk(r)
  \/ \E r \in Req : CaptionTaskReadFails(r)
  \/ \E r \in Req : CaptionTaskInferFails(r)
  \/ \E r \in Req : BothResolved(r)
  \/ \E r \in Req : MetricsFails(r)
  \/ Health
  \/ Ready
  \/ \E r \in Req : WarmupArrives(r)
  \/ \E r \in Req : WarmupResolved(r)
  \/ \E r \in Req : WarmupRejected(r)

Spec == Init /\ [][Next]_vars

\* The continuations of request r: what the event loop runs once the
\* operation the handler awaits has settled.
RequestStep(r) ==
  \/ AcquireOk(r) \/ AcquireFails(r)
  \/ PipeResolved(r) \/ PipeRejected(r)
  \/ InferOk(r) \/ InferFails(r)
  \/ AllResolved(r) \/ AllRejected(r)
  \/ CaptionTaskPipeResolved(r) \/ CaptionTaskPipeRejected(r)
  \/ CaptionTaskReadOk(r) \/ CaptionTaskReadFails(r)
  \/ CaptionTaskInferFails(r) \/ BothResolved(r) \/ MetricsFails(r)
  \/ WarmupResolved(r) \/ WarmupRejected(r)

\* The callbacks of the load chain of sequence s.
LoadStep(s) ==
  PrimaryLoaded(s) \/ PrimaryFailed(s) \/ FallbackLoaded(s) \/ FallbackFailed(s)

\* Every external operation (pipeline(), fetch, RawImage.read, sharp,
\* inference) eventually settles, and the event loop then runs the callback
\* that waits for it.
FairSpec ==
  /\ Spec
  /\ \A r \in Req : WF_vars(RequestStep(r))
  /\ \A s \in 1..(MaxReq + 1) : WF_vars(LoadStep(s))

(***************************************************************************)
(* Pure helpers of the handlers: getSaturation and the inference options   *)
(***************************************************************************)
\* The largest value of an 8-bit channel, hence of a channel mean.
MaxMean == 255

\* A quotient num / den of two integers as JavaScript evaluates it: a finite
\* number when den # 0, +-Infinity when only den is 0, NaN for 0 / 0.
Quotient(n, d) == [num |-> n, den |-> d]

\* The number literal 0.
Zero == Quotient(0, 1)

IsFinite(q) == q.den # 0

IsZero(q) == IsFinite(q) /\ q.num = 0

\* 0 <= q <= 1
InUnitInterval(q) ==
  /\ IsFinite(q)
  /\ IF q.den > 0 THEN 0 <= q.num /\ q.num <= q.den
                  ELSE q.den <= q.num /\ q.num <= 0

Abs(x) == IF x < 0 THEN -x ELSE x

\* Math.max(r, g, b), Math.min(r, g, b)
Max3(r, g, b) == CHOOSE x \in {r, g, b} : \A y \in {r, g, b} : y <= x

Min3(r, g, b) == CHOOSE x \in {r, g, b} : \A y \in {r, g, b} : x <= y

\* Mutant of getSaturation: only black is special-cased, not max === min.
getSaturation_NoGrayTest(r, g, b) ==
  LET max == Max3(r, g, b)
      min == Min3(r, g, b)
  IN  IF max + min = 0 THEN Zero
      ELSE Quotient(max - min, 1 - Abs(max + min - 1))

\* function getSaturation(r, g, b): l = (max + min) / 2, so l === 0 exactly
\* when max + min is 0, and 2 * l - 1 is max + min - 1.
getSaturation(r, g, b) ==
  LET max == Max3(r, g, b)
      min == Min3(r, g, b)
  IN  IF max + min = 0 \/ max = min THEN Zero
      ELSE Quotient(max - min, 1 - Abs(max + min - 1))

\* The fixed token limit.
DefaultMaxNewTokens == 40

\* The max_new_tokens field of a request body, by its typeof and its value
\* (for a string, the number it spells): absent, numbers, a numeric string,
\* null, a boolean, an object.
BodyValues ==
  {[type |-> "undefined", val |-> 0], [type |-> "number", val |-> 0],
   [type |-> "number", val |-> 10], [type |-> "number", val |-> 40],
   [type |-> "number", val |-> -1], [type |-> "string", val |-> 10],
   [type |-> "object", val |-> 0], [type |-> "boolean", val |-> 1]}

\* The max_new_tokens option handed to pipe(): the single-model variant
\* passes { max_new_tokens: 40 } and never reads the body field; the others
\* pass typeof max_new_tokens === 'number' ? max_new_tokens : 40.
MaxNewTokens(v, field) ==
  IF v = "single" THEN DefaultMaxNewTokens
  ELSE IF field.type = "number" THEN field.val ELSE DefaultMaxNewTokens

\* The channel means tried off the gray diagonal.
Means == {0, 1, 2, 127, 128, MaxMean - 1, MaxMean}

\* The evaluations tried: getSaturation on every gray (r = g = b) and on the
\* grid of Means, and the inference options of every variant on BodyValues.
SaturationCalls ==
  {[fn |-> "getSaturation", r |-> m, g |-> m, b |-> m, done |-> FALSE,
    out |-> Zero] : m \in 0..MaxMean}
  \cup {[fn |-> "getSaturation", r |-> r, g |-> g, b |-> b, done |-> FALSE,
         out |-> Zero] : r \in Means, g \in Means, b \in Means}

OptionCalls ==
  {[fn |-> "max_new_tokens", field |-> f, done |-> FALSE, out |-> 0] :
     f \in BodyValues}

\* const saturation = getSaturation(rStats.mean, gStats.mean, bStats.mean)
EvalSaturation ==
  /\ calc.fn = "getSaturation"
  /\ ~calc.done
  /\ calc' = [calc EXCEPT !.done = TRUE,
                          !.out = getSaturation(calc.r, calc.g, calc.b)]
  /\ UNCHANGED <<variant, probe, pipePromise, ready, activeModel, seqs, req>>

\* pipe(img, { max_new_tokens: ... })
EvalMaxNewTokens ==
  /\ calc.fn = "max_new_tokens"
  /\ ~calc.done
  /\ calc' = [calc EXCEPT !.done = TRUE,
                          !.out = MaxNewTokens(variant, calc.field)]
  /\ UNCHANGED <<variant, probe, pipePromise, ready, activeModel, seqs, req>>

CalcInit ==
  /\ \/ variant \in {"parallel"} /\ calc \in SaturationCalls
     \/ variant \in Variants /\ calc \in OptionCalls
  /\ seqs = <<>>
  /\ pipePromise = NoPromise
  /\ ready = FALSE
  /\ activeModel = NULL
  /\ req = [r \in Req |-> IdleReq]
  /\ probe = NoProbe

CalcNext == EvalSaturation \/ EvalMaxNewTokens

\* One evaluation of a helper on each of the inputs tried.
CalcSpec == CalcInit /\ [][CalcNext]_vars

(***************************************************************************)
(* Properties                                                              *)
(***************************************************************************)
Caption(r) == req[r].kind = "caption"

Warmup(r) == req[r].kind = "warmup"

Answered(r) == req[r].pc = "done"

\* C1: single-flight loading.  In every state at most one load sequence is
\* in flight and every sequence has called pipeline() once with the primary
\* identifier (and at most once more, with the fallback); and a step starts
\* a new sequence only when pipePromise is null and nothing is in flight,
\* and then starts exactly one.
C1_SingleFlight ==
  /\ [](/\ Cardinality(InFlight) <= 1
        /\ \A s \in 1..Len(seqs) :
             /\ Len(seqs[s].calls) \in {1, 2}
             /\ seqs[s].calls[1] = (IF variant = "single" THEN MODEL_ID
                                    ELSE PRIMARY_MODEL)
             /\ Len(seqs[s].calls) = 2 => seqs[s].calls[2] = FALLBACK_MODEL)
  /\ [][Len(seqs') # Len(seqs) =>
          /\ pipePromise = NoPromise
          /\ InFlight = {}
          /\ Len(seqs') = Len(seqs) + 1
          /\ pipePromise' = Len(seqs')]_vars

\* Two requests have joined the one sequence that is in flight.
C1_Witness ==
  \E r1, r2 \in Req :
    /\ r1 # r2
    /\ req[r1].seq = req[r2].seq
    /\ req[r1].seq \in InFlight
    /\ Len(seqs) = 1

\* C2: the callers that joined one load sequence observe one outcome.  Of
\* any two requests awaiting the same sequence that have both resumed, both
\* hold a handle loaded under the same identifier or both hold the
\* rejection, and what each holds is what the sequence settled with.
C2_SameOutcome ==
  \A r1, r2 \in Req :
    (/\ req[r1].seq # NoPromise
     /\ req[r1].seq = req[r2].seq
     /\ req[r1].pipe # NULL
     /\ req[r2].pipe # NULL)
    => /\ req[r1].pipe = req[r2].pipe
       /\ IF req[r1].pipe = REJECTED
            THEN seqs[req[r1].seq].phase = "rejected"
            ELSE /\ seqs[req[r1].seq].phase = "fulfilled"
                 /\ seqs[req[r1].seq].handle = req[r1].pipe

\* Two requests joined the same sequence and both resumed with the handle
\* loaded under the fallback identifier.
C2_Witness ==
  \E r1, r2 \in Req :
    /\ r1 # r2
    /\ req[r1].seq = req[r2].seq
    /\ req[r1].pipe = FALLBACK_MODEL
    /\ req[r2].pipe = FALLBACK_MODEL

\* C3: after the primary and the fallback load have both failed the loader
\* is reset.  In the fallback variants pipePromise never holds a rejected
\* sequence; while the last sequence is the rejected one pipePromise is null,
\* ready is false and activeModel is null; and the getPipe() call of a
\* request made then starts a new sequence whose first pipeline() call is
\* the primary, which the request joins.
C3_ResetAfterTotalFailure ==
  /\ [](HasFallback(variant) =>
          /\ pipePromise # NoPromise => seqs[pipePromise].phase # "rejected"
          /\ (Len(seqs) > 0 /\ seqs[Len(seqs)].phase = "rejected")
               => /\ pipePromise = NoPromise
                  /\ ready = FALSE
                  /\ activeModel = NULL)
  /\ [][\A r \in Req :
          (/\ HasFallback(variant)
           /\ Len(seqs) > 0
           /\ seqs[Len(seqs)].phase = "rejected"
           /\ req[r].seq = NoPromise
           /\ req'[r].seq # NoPromise)
          => /\ Len(seqs') = Len(seqs) + 1
             /\ req'[r].seq = Len(seqs')
             /\ seqs'[Len(seqs')].phase = "primary"
             /\ seqs'[Len(seqs')].calls = <<PRIMARY_MODEL>>]_vars

\* A request has joined the sequence started after a total failure.
C3_Witness ==
  /\ HasFallback(variant)
  /\ Len(seqs) >= 2
  /\ seqs[1].phase = "rejected"
  /\ seqs[1].calls = <<PRIMARY_MODEL, FALLBACK_MODEL>>
  /\ seqs[2].calls[1] = PRIMARY_MODEL
  /\ \E r \in Req : req[r].seq = 2

\* C4: once the primary load has failed and the fallback load succeeded,
\* ready is true, activeModel is the fallback identifier, and every
\* successful /caption response carries the fallback identifier as model.
C4_FallbackIsReported ==
  (\E s \in 1..Len(seqs) :
     /\ seqs[s].calls = <<PRIMARY_MODEL, FALLBACK_MODEL>>
     /\ seqs[s].phase = "fulfilled")
  => /\ ready = TRUE
     /\ activeModel = FALLBACK_MODEL
     /\ \A r \in Req :
          (Caption(r) /\ req[r].status = 200) => req[r].model = FALLBACK_MODEL

\* The variant of part_001 answered a caption request after the fallback
\* was loaded.
C4_Witness ==
  /\ variant = "raw"
  /\ \E s \in 1..Len(seqs) :
       seqs[s].calls = <<PRIMARY_MODEL, FALLBACK_MODEL>> /\ seqs[s].phase = "fulfilled"
  /\ \E r \in Req : Caption(r) /\ req[r].status = 200

\* C5: in every successful /caption response the model field is the
\* identifier under which the handle that ran the request's inference was
\* loaded.
C5_ModelIsTheOneThatServed ==
  \A r \in Req :
    (Caption(r) /\ req[r].status = 200)
    => /\ req[r].inferred
       /\ req[r].pipe \in {MODEL_ID, PRIMARY_MODEL, FALLBACK_MODEL}
       /\ req[r].model = req[r].pipe

\* A metrics variant answered 200 for an inference run by the fallback
\* handle, which is not the configured default.
C5_Witness ==
  /\ variant \in {"parallel", "nested"}
  /\ \E r \in Req :
       /\ Caption(r)
       /\ req[r].status = 200
       /\ req[r].pipe = FALLBACK_MODEL
       /\ req[r].pipe # PRIMARY_MODEL

\* C6: a /caption request whose image acquisition, model acquisition and
\* inference all succeeded is answered 200 with caption, model and
\* latency_ms.  (Refuted by part_002, whose response names MODEL_ID, an
\* identifier that file does not declare.)
C6_SuccessIsAnswered200 ==
  \A r \in Req :
    (Caption(r) /\ req[r].inferred)
    => /\ req[r].status = 200
       /\ {"caption", "model", "latency_ms"} \subseteq req[r].body

\* C7: a /caption request without image_url and without a non-empty
\* image_base64 is answered 400 with a body {error}.  (Refuted: every
\* variant throws inside the handler's try block and answers 500.)
C7_MissingImageIs400 ==
  \A r \in Req :
    (Caption(r) /\ Answered(r) /\ ~req[r].hasImage)
    => /\ req[r].status = 400
       /\ req[r].body = {"error"}

\* C8: a /caption request that carried an image reference and did not end
\* in a 200 is answered 500 with a body holding only the error message; a
\* request whose inference did not resolve is never answered 200; and no
\* response holds an error together with caption, model, latency_ms or
\* metrics.
C8_FailureIs500ErrorOnly ==
  \A r \in Req :
    (Caption(r) /\ Answered(r))
    => /\ (req[r].hasImage /\ ~req[r].inferred) => req[r].status # 200
       /\ (req[r].hasImage /\ req[r].status # 200)
            => /\ req[r].status = 500
               /\ req[r].body = {"error"}
               /\ req[r].error # NULL
       /\ "error" \in req[r].body
            => /\ req[r].body = {"error"}
               /\ req[r].model = NULL

\* In a metrics variant one request failed in its metrics task and another
\* in the load, and both were answered.
C8_Witness ==
  /\ variant \in {"parallel", "nested"}
  /\ \E r1, r2 \in Req :
       /\ Caption(r1) /\ Answered(r1) /\ req[r1].error = "metrics failed"
       /\ Caption(r2) /\ Answered(r2) /\ req[r2].pipe = REJECTED

\* C9: in the single-model variant a failed load is not kept: pipePromise
\* never holds a rejected promise, so a later getPipe() starts a new load.
\* (Refuted: getPipe() of server.js:38-45 and part_003:35-42 never clears
\* pipePromise.)
C9_SingleLoaderDropsFailedLoad ==
  (variant = "single" /\ pipePromise # NoPromise)
  => seqs[pipePromise].phase # "rejected"

\* C10: GET /warmup answers only once the sequence it awaits has settled:
\* 200 {ready: true, model} with model the non-null identifier that the
\* sequence loaded, or 500 {ready: false, error} after the primary and the
\* fallback both failed.
C10_WarmupAnswersAfterSettle ==
  \A r \in Req :
    Warmup(r) =>
      /\ req[r].seq \in 1..Len(seqs)
      /\ req[r].seq \in InFlight => ~Answered(r) /\ req[r].status = 0
      /\ Answered(r) =>
           \/ /\ req[r].status = 200
              /\ req[r].body = {"ready", "model"}
              /\ req[r].rdy = "true"
              /\ seqs[req[r].seq].phase = "fulfilled"
              /\ req[r].model # NULL
              /\ req[r].model = seqs[req[r].seq].handle
              /\ req[r].model = seqs[req[r].seq].calls[Len(seqs[req[r].seq].calls)]
           \/ /\ req[r].status = 500
              /\ req[r].body = {"ready", "error"}
              /\ req[r].rdy = "false"
              /\ seqs[req[r].seq].phase = "rejected"
              /\ seqs[req[r].seq].calls = <<PRIMARY_MODEL, FALLBACK_MODEL>>

\* One /warmup was answered 500 after a total failure and a later one 200
\* with the fallback identifier.
C10_Witness ==
  \E r1, r2 \in Req :
    /\ Warmup(r1) /\ req[r1].status = 500
    /\ Warmup(r2) /\ req[r2].status = 200 /\ req[r2].model = FALLBACK_MODEL


\* C11: GET /health and GET /ready never start a load and leave pipePromise,
\* ready and activeModel (and the load sequences and requests) as they were,
\* in every state; the body of GET /ready carries exactly the ready flag and
\* the activeModel of the state it was served in.
C11_StatusRoutesOnlyRead ==
  [][probe' # NoProbe =>
       /\ UNCHANGED <<pipePromise, ready, activeModel, seqs, req>>
       /\ probe'.route = "/ready" =>
            probe'.ready = ready /\ probe'.model = activeModel]_vars

\* GET /ready has just been served while a load was in flight and a request
\* was waiting for it.
C11_Witness ==
  /\ probe.route = "/ready"
  /\ probe.ready = FALSE
  /\ probe.model = NULL
  /\ InFlight # {}
  /\ \E r \in Req : req[r].seq \in InFlight


PipelineCalls ==
  UNION {{<<s, i>> : i \in 1..Len(seqs[s].calls)} : s \in 1..Len(seqs)}

\* C13: the loader never retries by itself.  A load sequence calls
\* pipeline() once for its primary identifier and at most once more, for the
\* fallback; and a step makes a pipeline() call only as the fallback attempt
\* of a sequence whose primary attempt has just failed, or as the first call
\* of a new sequence started by the getPipe() call of a request in that very
\* step, every earlier sequence having failed.
C13_NoRetryWithoutCaller ==
  [][/\ \A s \in 1..Len(seqs') :
          \/ Len(seqs'[s].calls) = 1
          \/ /\ HasFallback(variant)
             /\ seqs'[s].calls = <<PRIMARY_MODEL, FALLBACK_MODEL>>
     /\ PipelineCalls' # PipelineCalls =>
          \/ /\ Len(seqs') = Len(seqs)
             /\ \E s \in 1..Len(seqs) :
                  /\ seqs[s].phase = "primary"
                  /\ seqs'[s].phase = "fallback"
                  /\ PipelineCalls' = PipelineCalls \cup {<<s, 2>>}
          \/ /\ Len(seqs') = Len(seqs) + 1
             /\ PipelineCalls' = PipelineCalls \cup {<<Len(seqs) + 1, 1>>}
             /\ \A s \in 1..Len(seqs) : seqs[s].phase = "rejected"
             /\ \E r \in Req : /\ req[r].seq = NoPromise
                               /\ req'[r].seq = Len(seqs) + 1]_vars

\* A first sequence failed on both identifiers, and the getPipe() call of a
\* request started a second one, which went on to its fallback attempt.
C13_Witness ==
  /\ Len(seqs) = 2
  /\ seqs[1].phase = "rejected"
  /\ seqs[1].calls = <<PRIMARY_MODEL, FALLBACK_MODEL>>
  /\ seqs[2].calls = <<PRIMARY_MODEL, FALLBACK_MODEL>>
  /\ \E r \in Req : req[r].seq = 2


\* C14: the backend is loaded at most once in a process lifetime.  A load
\* sequence that succeeded is the last one ever started and stays the stored
\* promise: no getPipe() call after it called pipeline() again, and no step
\* taken once a sequence has succeeded adds a pipeline() call.
C14_LoadedAtMostOnce ==
  [][(\E s \in 1..Len(seqs) : SeqFulfilled(s)) =>
       /\ PipelineCalls' = PipelineCalls
       /\ pipePromise' = pipePromise
       /\ SeqFulfilled(pipePromise) /\ pipePromise = Len(seqs)]_vars

\* A request called getPipe() after the stored sequence had succeeded, and
\* every request was handed the handle of that one sequence.
C14_Witness ==
  /\ pipePromise # NoPromise
  /\ SeqFulfilled(pipePromise)
  /\ seqs[pipePromise].reused
  /\ \A r \in Req : /\ req[r].seq = pipePromise
                     /\ req[r].pipe = seqs[pipePromise].handle


\* C15: when every external operation eventually settles, every POST
\* /caption and GET /warmup that arrived is eventually answered, and no
\* request is ever answered twice; this includes the requests that wait on a
\* load sequence that fails and those that arrive after a total failure.
C15_EveryRequestIsAnsweredOnce ==
  /\ [](\A r \in Req : req[r].sent <= 1)
  /\ \A r \in Req :
       (req[r].kind # "idle") ~> (req[r].sent = 1 /\ req[r].status # 0)

\* One request waited on a sequence that failed entirely and was answered
\* 500; another arrived after that failure and was answered too.
C15_Witness ==
  \E r, q \in Req :
    /\ r # q
    /\ req[r].pipe = REJECTED /\ req[r].sent = 1 /\ req[r].status = 500
    /\ req[q].seq > req[r].seq /\ req[q].sent = 1


\* C16: a POST /caption request that computes metrics reads its image source
\* once: the buffer for the metrics and the pixel data for inference come
\* from a single acquisition of the image reference, so that a URL is
\* fetched at most once for the request.
C16_ImageReadAtMostOnce ==
  \A r \in Req :
    (Caption(r) /\ variant \in {"parallel", "nested"}) => req[r].reads <= 1

\* C17: the saturation put in metrics, getSaturation applied to the three
\* channel means, is a number between 0 and 1 for all means in 0..255: never
\* negative, never the quotient of a division by zero.
C17_SaturationInUnitInterval ==
  (calc.fn = "getSaturation" /\ calc.done) => InUnitInterval(calc.out)

\* C18: the max_new_tokens option passed to inference is the request's
\* max_new_tokens when that is a number, and 40 when it is absent or of any
\* other type.
C18_MaxNewTokensFromRequest ==
  (calc.fn = "max_new_tokens" /\ calc.done) =>
     calc.out = IF calc.field.type = "number" THEN calc.field.val ELSE 40

\* C19: getSaturation(r, g, b) is exactly 0 whenever r = g = b, for every
\* value in 0..255, black included.
C19_GrayHasNoSaturation ==
  (/\ calc.fn = "getSaturation"
   /\ calc.done
   /\ calc.r = calc.g /\ calc.g = calc.b) => IsZero(calc.out)

\* getSaturation has been evaluated on the brightest gray and returned 0.
C19_Witness ==
  /\ calc.fn = "getSaturation"
  /\ calc.done
  /\ calc.r = MaxMean /\ calc.g = MaxMean /\ calc.b = MaxMean
  /\ IsZero(calc.out)


\* C20: when both loads of a sequence fail, the sequence rejects with the
\* error of the fallback attempt; every caller that waited on it is answered
\* with that error, and the error of the primary attempt reaches no caller:
\* it is only logged.
C20_WaitersGetFallbackError ==
  HasFallback(variant) =>
    /\ \A s \in 1..Len(seqs) :
         SeqRejected(s) =>
           /\ seqs[s].error = FallbackError
           /\ seqs[s].logged = <<PrimaryError>>
           /\ \A r \in Req :
                (req[r].seq = s /\ req[r].pipe = REJECTED) =>
                   req[r].status = 500 /\ req[r].error = FallbackError
    /\ \A r \in Req : req[r].error # PrimaryError

\* Two callers waited on the same sequence, both of its loads failed, and
\* both were answered with the fallback's error.
C20_Witness ==
  /\ HasFallback(variant)
  /\ \E r, q \in Req :
       /\ r # q
       /\ req[r].seq = req[q].seq
       /\ req[r].seq # NoPromise
       /\ SeqRejected(req[r].seq)
       /\ req[r].error = FallbackError
       /\ req[q].error = FallbackError


\* C21: in every load sequence the primary identifier is attempted first
\* and the fallback load is started only once the primary load has failed:
\* while the primary load is outstanding it is the only pipeline() call of
\* the sequence, a sequence that made a fallback call has logged the
\* primary's failure, and a sequence resolved by the primary never called
\* pipeline() with the fallback identifier.
C21_PrimaryFirstThenFallback ==
  \A s \in 1..Len(seqs) :
    /\ seqs[s].calls[1] = IF variant = "single" THEN MODEL_ID ELSE PRIMARY_MODEL
    /\ seqs[s].phase = "primary" => Len(seqs[s].calls) = 1
    /\ Len(seqs[s].calls) > 1 =>
         /\ HasFallback(variant)
         /\ seqs[s].calls = <<PRIMARY_MODEL, FALLBACK_MODEL>>
         /\ seqs[s].logged = <<PrimaryError>>
         /\ seqs[s].phase = "fulfilled" => seqs[s].handle = FALLBACK_MODEL
    /\ (seqs[s].phase = "fulfilled" /\ seqs[s].handle # FALLBACK_MODEL) =>
         Len(seqs[s].calls) = 1

\* One sequence went to its fallback after the primary failed, and a later
\* one was resolved by the primary alone.
C21_Witness ==
  /\ Len(seqs) = 2
  /\ seqs[1].calls = <<PRIMARY_MODEL, FALLBACK_MODEL>>
  /\ seqs[1].logged = <<PrimaryError>>
  /\ SeqFulfilled(2)
  /\ seqs[2].calls = <<PRIMARY_MODEL>>
  /\ seqs[2].handle = PRIMARY_MODEL


C23_NoImageNoWork ==
  \A r \in Req :
    (Caption(r) /\ ~req[r].hasImage) =>
      /\ Answered(r)
      /\ req[r].status # 200
      /\ req[r].seq = NoPromise /\ req[r].pipe = NULL
      /\ req[r].reads = 0
      /\ ~req[r].inferred

\* In the single-model variant, whose first load is made by a request, a
\* request without image was answered and no load sequence exists.
C23_Witness ==
  /\ variant = "single"
  /\ seqs = <<>>
  /\ \E r \in Req : Caption(r) /\ ~req[r].hasImage /\ Answered(r)


\* C24: in every reachable state of the loader with fallback, ready is true
\* exactly when activeModel is not null, activeModel is null or one of the
\* two configured identifiers, ready implies that a promise is stored, and
\* while a primary or fallback load is outstanding ready is false and
\* activeModel is null.
C24_LoaderInvariants ==
  HasFallback(variant) =>
    /\ ready <=> activeModel # NULL
    /\ activeModel \in {NULL, PRIMARY_MODEL, FALLBACK_MODEL}
    /\ ready => pipePromise # NoPromise
    /\ InFlight # {} => ~ready /\ activeModel = NULL

\* After a first sequence failed, a second one was resolved by the fallback:
\* the loader is ready with the fallback identifier and the promise stored.
C24_Witness ==
  /\ Len(seqs) = 2
  /\ seqs[1].phase = "rejected"
  /\ ready
  /\ activeModel = FALLBACK_MODEL
  /\ pipePromise = 2


\* C25: on a successful load activeModel and ready are written before any
\* waiter of the sequence resumes with the handle: a handler that has been
\* handed the backend handle by getPipe() never sees activeModel = null or
\* ready = false, then or later.
C25_HandleImpliesReady ==
  HasFallback(variant) =>
    \A r \in Req :
      req[r].pipe \notin {NULL, REJECTED} =>
        /\ SeqFulfilled(req[r].seq)
        /\ ready
        /\ activeModel = req[r].pipe

\* A POST /caption handler has just resumed with the handle and runs
\* inference, and a GET /warmup that waited on the same sequence was
\* answered with the model that loaded.
C25_Witness ==
  /\ HasFallback(variant)
  /\ \E r, q \in Req :
       /\ Caption(r) /\ req[r].pc = "inferring"
       /\ req[r].pipe = activeModel
       /\ Warmup(q) /\ req[q].status = 200 /\ req[q].seq = req[r].seq
       /\ req[q].model = activeModel


\* C26: on total load failure the reset (pipePromise = null, ready = false,
\* activeModel = null) is in place before any waiter of the sequence
\* observes the rejection: a rejected sequence is never the stored promise,
\* no getPipe() call ever returned its promise after it had rejected, and
\* the request that calls getPipe() next starts a new sequence.
C26_ResetBeforeRejectionSeen ==
  HasFallback(variant) =>
    \A s \in 1..Len(seqs) :
      SeqRejected(s) =>
        /\ pipePromise # s
        /\ ~seqs[s].reused
        /\ pipePromise = NoPromise => ~ready /\ activeModel = NULL
        /\ \A r \in Req :
             (req[r].seq = s /\ Answered(r) /\ req[r].pipe # NULL) =>
                req[r].pipe = REJECTED

\* A waiter of the startup sequence observed its rejection and was answered
\* 500; the request that came next started the second sequence.
C26_Witness ==
  /\ HasFallback(variant)
  /\ Len(seqs) = 2
  /\ \E r, q \in Req :
       /\ req[r].seq = 1 /\ req[r].pipe = REJECTED /\ req[r].status = 500
       /\ req[q].seq = 2 /\ ~seqs[1].reused


\* C27: once a load has succeeded and set activeModel, activeModel keeps
\* that value and ready stays true for the rest of the process, whatever
\* requests follow and however they end: in every state with a resolved
\* sequence the loader still shows what that sequence's markReady wrote.
C27_SuccessIsPermanent ==
  HasFallback(variant) =>
    \A s \in 1..Len(seqs) :
      SeqFulfilled(s) =>
        /\ ready
        /\ activeModel = seqs[s].handle

\* After the load succeeded one request failed in inference and another
\* was answered 200: the loader still shows the model that loaded.
C27_Witness ==
  /\ HasFallback(variant)
  /\ ready
  /\ \E r, q \in Req :
       /\ req[r].error = "inference failed" /\ req[r].pipe = activeModel
       /\ req[q].status = 200 /\ req[q].pipe = activeModel

\* The failures that belong to one request.
OwnErrors ==
  {"image acquisition failed", "metrics failed", "image decode failed",
   "inference failed", "MODEL_ID is not defined"}

\* C28: a failure that belongs to a single request (image fetch or decode,
\* metrics, inference) leaves the shared loader as it was: the step that
\* answers it 500 changes neither pipePromise, ready, activeModel nor any
\* load sequence, and no other request.
C28_OwnFailureLeavesLoader ==
  [][\A r \in Req :
       (/\ req[r].status = 0
        /\ req'[r].status = 500
        /\ req'[r].error \in OwnErrors) =>
          /\ UNCHANGED <<pipePromise, ready, activeModel, seqs>>
          /\ \A q \in Req \ {r} : req'[q] = req[q]]_vars

\* One request failed on its image while the load was in flight; the load
\* then succeeded and the other request, which waited on it, was answered
\* 200.
C28_Witness ==
  \E r, q \in Req :
    /\ req[r].status = 500 /\ req[r].error = "image acquisition failed"
    /\ req[q].status = 200 /\ req[q].seq # NoPromise
    /\ SeqFulfilled(req[q].seq)
    /\ pipePromise = req[q].seq


\* C29: every load sequence has a rejection handler from the step that
\* created it.  In every reachable state each sequence started so far, by the
\* startup call, by GET /warmup or by POST /caption, has a handler attached,
\* whether it is in flight or settled and whatever became of the request that
\* started it; so no sequence is ever a rejection without a handler and the
\* process keeps running.
C29_EverySequenceIsHandled ==
  /\ \A s \in 1..Len(seqs) : seqs[s].handled
  /\ ~UnhandledRejection

\* A captioning request started the second load sequence together with its
\* metrics task, the metrics task failed first and the request was answered
\* 500 with that error; the sequence failed afterwards and the process is
\* still running.
C29_Witness ==
  /\ variant \in {"parallel", "nested"}
  /\ Len(seqs) = 2
  /\ seqs[2].phase = "rejected"
  /\ \E r \in Req :
       /\ Caption(r) /\ req[r].seq = 2
       /\ req[r].status = 500 /\ req[r].error = "metrics failed"
  /\ \A r \in Req : req[r].seq = 2 => req[r].pipe # REJECTED
  /\ Running

====
